---------------------------- MODULE Spec2Model ----------------------------
(***************************************************************************)
(* Model of download_scripts/retrosheet_wrangle.py: the batch pipeline     *)
(* that turns the wide player-per-game and game tables into the batting,   *)
(* pitching, fielding, id-mapping, team-game and game tables.              *)
(*                                                                         *)
(* A table (a pandas DataFrame) is a record                                *)
(*     [columns |-> sequence of column names, rows |-> sequence of rows]   *)
(* and a row is the sequence of its values, in the order of the columns.   *)
(* A column name (a Python str) is the sequence of its characters, so that *)
(* slicing, prefix tests, replace() and upper() are computed on the text.  *)
(***************************************************************************)
EXTENDS Naturals, Integers, Sequences, FiniteSets, TLC

VARIABLES
    pc,               \* position of main()
    player_game_file, \* collected/player_game.csv.gz: a table, or Missing
    game_file,        \* collected/game.csv.gz: a table, or Missing
    player_game,      \* main's local player_game
    game,             \* main's local game
    written,          \* names of the output files written so far
    batting,          \* wrangled/batting.csv.gz
    pitching,         \* wrangled/pitching.csv.gz
    fielding,         \* wrangled/fielding.csv.gz
    player_id_mapping,\* wrangled/player_id_mapping.csv
    team_id_mapping,  \* wrangled/team_id_mapping.csv
    team_game,        \* wrangled/team_game.csv.gz
    game_out          \* wrangled/game.csv.gz

vars == <<pc, player_game_file, game_file, player_game, game, written,
          batting, pitching, fielding, player_id_mapping, team_id_mapping,
          team_game, game_out>>

-----------------------------------------------------------------------------
(* Bounds of the model *)

\* rows of an input player-per-game table
MaxRows == 2
\* largest value of a statistic column in an input row
MaxStat == 1
\* largest raw start time tried (HHMM integer); 2400 and above cannot be parsed
MaxTime == 2401
\* rows of an input game table of several games
MaxGames == 2

-----------------------------------------------------------------------------
(* Python str operations, on sequences of characters *)

StartsWith(s, p) == Len(s) >= Len(p) /\ SubSeq(s, 1, Len(p)) = p

EndsWith(s, p) == Len(s) >= Len(p) /\ SubSeq(s, Len(s) - Len(p) + 1, Len(s)) = p

\* s[n:]
DropChars(s, n) == SubSeq(s, n + 1, Len(s))

\* s.replace(old, new): every non-overlapping occurrence, left to right
RECURSIVE Replace(_, _, _)
Replace(s, old, new) ==
    IF s = <<>> THEN <<>>
    ELSE IF StartsWith(s, old) THEN new \o Replace(DropChars(s, Len(old)), old, new)
    ELSE <<Head(s)>> \o Replace(Tail(s), old, new)

UpperChar(c) ==
    CASE c = "a" -> "A" [] c = "b" -> "B" [] c = "c" -> "C" [] c = "d" -> "D"
      [] c = "e" -> "E" [] c = "f" -> "F" [] c = "g" -> "G" [] c = "h" -> "H"
      [] c = "i" -> "I" [] c = "l" -> "L" [] c = "m" -> "M" [] c = "n" -> "N"
      [] c = "o" -> "O" [] c = "p" -> "P" [] c = "r" -> "R" [] c = "s" -> "S"
      [] c = "t" -> "T" [] c = "u" -> "U" [] c = "x" -> "X" [] c = "y" -> "Y"
      [] OTHER -> c

\* s.upper()
Upper(s) == [i \in 1..Len(s) |-> UpperChar(s[i])]

\* list helpers
Contains(s, e) == \E i \in 1..Len(s) : s[i] = e

\* the first index of e in s, from index i on
RECURSIVE IndexFrom(_, _, _)
IndexFrom(s, e, i) == IF s[i] = e THEN i ELSE IndexFrom(s, e, i + 1)

\* the first index of e in s (e is in s)
IndexOf(s, e) == IndexFrom(s, e, 1)

RECURSIVE SumSeq(_)
SumSeq(s) == IF s = <<>> THEN 0 ELSE Head(s) + SumSeq(Tail(s))

RECURSIVE Flatten(_)
Flatten(ss) == IF ss = <<>> THEN <<>> ELSE Head(ss) \o Flatten(Tail(ss))

-----------------------------------------------------------------------------
(* DataFrame operations *)

\* a file that does not exist
Missing == [missing |-> TRUE]
NoTable == [columns |-> <<>>, rows |-> <<>>]

\* row[col]
Get(t, r, col) == r[IndexOf(t.columns, col)]

\* the rows narrowed to cols
Narrow(t, rows, cols) ==
    LET at == [j \in 1..Len(cols) |-> IndexOf(t.columns, cols[j])]
    IN [i \in 1..Len(rows) |-> [j \in 1..Len(cols) |-> rows[i][at[j]]]]

\* df.loc[rows, cols]: the rows kept, narrowed to cols
Loc(t, rows, cols) == [columns |-> cols, rows |-> Narrow(t, rows, cols)]

\* df.rename(columns = mapping): mapping is a function on some column names
Rename(t, mapping) ==
    [t EXCEPT !.columns =
        [i \in 1..Len(t.columns) |->
            IF t.columns[i] \in DOMAIN mapping THEN mapping[t.columns[i]]
            ELSE t.columns[i]]]

\* df.drop(cols, axis = 1)
DropColumns(t, cols) ==
    LET keep == SelectSeq(t.columns, LAMBDA c : c \notin cols)
    IN [columns |-> keep, rows |-> Narrow(t, t.rows, keep)]

\* df.insert(loc, col, values) with Python's 0-based loc
InsertColumn(t, loc, col, values) ==
    [columns |-> SubSeq(t.columns, 1, loc) \o <<col>>
                    \o SubSeq(t.columns, loc + 1, Len(t.columns)),
     rows |-> [i \in 1..Len(t.rows) |->
                  SubSeq(t.rows[i], 1, loc) \o <<values[i]>>
                     \o SubSeq(t.rows[i], loc + 1, Len(t.rows[i]))]]

\* df[col] = values, for a new column (appended last)
AddColumn(t, col, values) == InsertColumn(t, Len(t.columns), col, values)

\* the column as a sequence
Column(t, col) == [i \in 1..Len(t.rows) |-> Get(t, t.rows[i], col)]

Constant(t, v) == [i \in 1..Len(t.rows) |-> v]

-----------------------------------------------------------------------------
(* Column names of the input and output tables *)

game_id == <<"g", "a", "m", "e", "_", "i", "d">>
player_id == <<"p", "l", "a", "y", "e", "r", "_", "i", "d">>
team_id == <<"t", "e", "a", "m", "_", "i", "d">>
game_dt == <<"g", "a", "m", "e", "_", "d", "t">>
appear_dt == <<"a", "p", "p", "e", "a", "r", "_", "d", "t">>
b_g == <<"b", "_", "g">>
b_2b == <<"b", "_", "2", "b">>
b_3b == <<"b", "_", "3", "b">>
b_gdp == <<"b", "_", "g", "d", "p">>
b_hp == <<"b", "_", "h", "p">>
p_g == <<"p", "_", "g">>
p_2b == <<"p", "_", "2", "b">>
p_3b == <<"p", "_", "3", "b">>
p_gdp == <<"p", "_", "g", "d", "p">>
p_hp == <<"p", "_", "h", "p">>
f_p_g == <<"f", "_", "p", "_", "g">>
f_c_g == <<"f", "_", "c", "_", "g">>
f_c_pb == <<"f", "_", "c", "_", "p", "b">>
f_c_xi == <<"f", "_", "c", "_", "x", "i">>
f_1b_g == <<"f", "_", "1", "b", "_", "g">>
f_2b_g == <<"f", "_", "2", "b", "_", "g">>
f_3b_g == <<"f", "_", "3", "b", "_", "g">>
f_ss_g == <<"f", "_", "s", "s", "_", "g">>
f_lf_g == <<"f", "_", "l", "f", "_", "g">>
f_cf_g == <<"f", "_", "c", "f", "_", "g">>
f_rf_g == <<"f", "_", "r", "f", "_", "g">>
pos == <<"p", "o", "s">>
pb == <<"p", "b">>
xi == <<"x", "i">>
double == <<"d", "o", "u", "b", "l", "e">>
triple == <<"t", "r", "i", "p", "l", "e">>
gidp == <<"g", "i", "d", "p">>
hbp == <<"h", "b", "p">>
game_dy == <<"g", "a", "m", "e", "_", "d", "y">>
start_game_tm == <<"s", "t", "a", "r", "t", "_", "g", "a", "m", "e", "_", "t", "m">>
dh_fl == <<"d", "h", "_", "f", "l">>
dh_flag == <<"d", "h", "_", "f", "l", "a", "g">>
daynight_park_cd == <<"d", "a", "y", "n", "i", "g", "h", "t", "_", "p", "a", "r", "k", "_", "c", "d">>
game_start_dt == <<"g", "a", "m", "e", "_", "s", "t", "a", "r", "t", "_", "d", "t">>
away_team_id == <<"a", "w", "a", "y", "_", "t", "e", "a", "m", "_", "i", "d">>
home_team_id == <<"h", "o", "m", "e", "_", "t", "e", "a", "m", "_", "i", "d">>
away_score_ct == <<"a", "w", "a", "y", "_", "s", "c", "o", "r", "e", "_", "c", "t">>
home_score_ct == <<"h", "o", "m", "e", "_", "s", "c", "o", "r", "e", "_", "c", "t">>
away_pitcher_ct == <<"a", "w", "a", "y", "_", "p", "i", "t", "c", "h", "e", "r", "_", "c", "t">>
home_pitcher_ct == <<"h", "o", "m", "e", "_", "p", "i", "t", "c", "h", "e", "r", "_", "c", "t">>
at_home == <<"a", "t", "_", "h", "o", "m", "e">>
opponent_team_id == <<"o", "p", "p", "o", "n", "e", "n", "t", "_", "t", "e", "a", "m", "_", "i", "d">>
retro_id == <<"r", "e", "t", "r", "o", "_", "i", "d">>
year_id == <<"y", "e", "a", "r", "_", "i", "d">>
team_id_retro == <<"t", "e", "a", "m", "_", "i", "d", "_", "r", "e", "t", "r", "o">>

\* columns of collected/player_game.csv.gz, in file order
PlayerGameColumns ==
    <<game_id, game_dt, appear_dt, team_id, player_id,
      b_g, b_2b, b_3b, b_gdp, b_hp,
      p_g, p_2b, p_3b, p_gdp, p_hp,
      f_p_g, f_c_g, f_c_pb, f_c_xi, f_1b_g, f_2b_g, f_3b_g,
      f_ss_g, f_lf_g, f_cf_g, f_rf_g>>

\* columns of collected/game.csv.gz, in file order
GameColumns ==
    <<game_id, game_dt, game_dy, start_game_tm, dh_fl, daynight_park_cd,
      away_team_id, home_team_id, away_score_ct, home_score_ct,
      away_pitcher_ct, home_pitcher_ct>>

\* a word character of Python's re (\w): every character of a column name
IsWordChar(c) == c \in {"a", "b", "c", "d", "e", "f", "g", "h", "i", "j", "k",
                        "l", "m", "n", "o", "p", "q", "r", "s", "t", "u", "v",
                        "w", "x", "y", "z", "0", "1", "2", "3", "4", "5", "6",
                        "7", "8", "9", "_"}

-----------------------------------------------------------------------------
(* data_helper (dh): the helpers the script imports *)

\* dh.is_unique(df, pkey): no two rows agree on every column of pkey
is_unique(t, pkey) ==
    \A i, j \in 1..Len(t.rows) :
        (\A k \in 1..Len(pkey) : Get(t, t.rows[i], pkey[k]) = Get(t, t.rows[j], pkey[k]))
            => i = j

KeyOf(t, r, pkey) == [k \in 1..Len(pkey) |-> Get(t, r, pkey[k])]

\* dh.sum_stats_for_dups(df, pkey, stat_cols): one row per key, in the order
\* of the keys' first rows; a stat column holds the sum over the key's rows,
\* any other column the value of the key's first row
sum_stats_for_dups(t, pkey, stat_cols) ==
    LET n == Len(t.rows)
        first == SelectSeq([i \in 1..n |-> i],
                     LAMBDA i : \A j \in 1..(i - 1) :
                         KeyOf(t, t.rows[j], pkey) # KeyOf(t, t.rows[i], pkey))
        group(i) == SelectSeq(t.rows,
                     LAMBDA r : KeyOf(t, r, pkey) = KeyOf(t, t.rows[i], pkey))
    IN [columns |-> t.columns,
        rows |-> [m \in 1..Len(first) |->
                    [c \in 1..Len(t.columns) |->
                        IF Contains(stat_cols, t.columns[c])
                        THEN SumSeq([g \in 1..Len(group(first[m])) |->
                                        group(first[m])[g][c]])
                        ELSE t.rows[first[m]][c]]]]

\* dh.move_column_after(df, after_col, move_col): move_col placed right after after_col
move_column_after(t, after_col, move_col) ==
    LET others == SelectSeq(t.columns, LAMBDA c : c # move_col)
        at == IndexOf(others, after_col)
        cols == SubSeq(others, 1, at) \o <<move_col>> \o SubSeq(others, at + 1, Len(others))
    IN [columns |-> cols, rows |-> Narrow(t, t.rows, cols)]

\* pd.concat(dfs, ignore_index = True): the columns in order of first
\* appearance, the rows of each table in turn, NaN where a table lacks a column
Concat(dfs) ==
    LET all == Flatten([i \in 1..Len(dfs) |-> dfs[i].columns])
        cols == SelectSeq([i \in 1..Len(all) |-> <<i, all[i]>>],
                    LAMBDA p : \A j \in 1..(p[1] - 1) : all[j] # p[2])
        names == [i \in 1..Len(cols) |-> cols[i][2]]
        widen(t) ==
            LET at == [j \in 1..Len(names) |->
                          IF Contains(t.columns, names[j])
                          THEN IndexOf(t.columns, names[j]) ELSE 0]
            IN [i \in 1..Len(t.rows) |->
                   [j \in 1..Len(names) |->
                       IF at[j] # 0 THEN t.rows[i][at[j]] ELSE "NaN"]]
    IN [columns |-> names,
        rows |-> Flatten([i \in 1..Len(dfs) |-> widen(dfs[i])])]

-----------------------------------------------------------------------------
(* clean_player_game *)

\* re.search(r'^[bpf]_', col)
IsStatColumn(col) == Len(col) >= 2 /\ col[1] \in {"b", "p", "f"} /\ col[2] = "_"

\* stat_columns with the pattern ^[bp]_, which misses the fielding columns
stat_columns_without_f(t) ==
    SelectSeq(t.columns,
              LAMBDA c : Len(c) >= 2 /\ c[1] \in {"b", "p"} /\ c[2] = "_" /\ c # b_g)

\* stat_columns: the b_, p_ and f_ columns, with b_g removed
stat_columns(t) ==
    SelectSeq(SelectSeq(t.columns, IsStatColumn), LAMBDA c : c # b_g)

\* (player_game['game_dt'] == player_game['appear_dt']).mean() > 0.999
\* (the mean of no rows is NaN, and NaN > 0.999 is False)
AppearSameAsGame(t) ==
    LET n == Len(t.rows)
        same == Len(SelectSeq(t.rows,
                    LAMBDA r : Get(t, r, game_dt) = Get(t, r, appear_dt)))
    IN n > 0 /\ same * 1000 > 999 * n

\* clean_player_game without the merge of the duplicate keys
clean_player_game_keeps_dups(t) ==
    IF AppearSameAsGame(t) THEN DropColumns(t, {appear_dt}) ELSE t

clean_player_game(t) ==
    LET t1 == IF AppearSameAsGame(t) THEN DropColumns(t, {appear_dt}) ELSE t
        pkey == <<game_id, player_id>>
    IN IF ~is_unique(t1, pkey)
       THEN sum_stats_for_dups(t1, pkey, stat_columns(t1))
       ELSE t1

-----------------------------------------------------------------------------
(* create_batting, create_pitching *)

\* the elements of a list
ToSet(s) == {s[i] : i \in 1..Len(s)}

\* {col: col[n:] for col in cols}
StripDict(cols, n) == [c \in ToSet(cols) |-> DropChars(c, n)]

\* d[k] = v
DictSet(d, k, v) == [x \in DOMAIN d \cup {k} |-> IF x = k THEN v ELSE d[x]]

\* d.pop(k), for a key d holds
DictPop(d, k) == [x \in DOMAIN d \ {k} |-> d[x]]

\* NonzeroRows with the filter left out
NonzeroRows_all(t, cols) == t.rows

\* the rows of t that df[cols].sum(axis = 1) == 0 does not mark
NonzeroRows(t, cols) ==
    LET at == [j \in 1..Len(cols) |-> IndexOf(t.columns, cols[j])]
    IN SelectSeq(t.rows, LAMBDA r : SumSeq([j \in 1..Len(cols) |-> r[at[j]]]) # 0)

b_cols(t) == SelectSeq(t.columns, LAMBDA c : StartsWith(c, <<"b", "_">>))

\* b_cols_new without the two overrides
b_cols_new_stripped(t) == StripDict(b_cols(t), 2)

b_cols_new(t) ==
    DictSet(DictSet(StripDict(b_cols(t), 2), b_2b, double), b_3b, triple)

create_batting(t) ==
    Rename(Loc(t, t.rows, <<game_id, player_id>> \o <<team_id>> \o b_cols(t)),
           b_cols_new(t))

p_cols(t) == SelectSeq(t.columns, LAMBDA c : StartsWith(c, <<"p", "_">>))

p_cols_new(t) ==
    DictSet(DictSet(DictSet(DictSet(StripDict(p_cols(t), 2), p_2b, double),
                            p_3b, triple),
                    p_gdp, gidp),
            p_hp, hbp)

\* create_pitching without p_filt
create_pitching_unfiltered(t) ==
    Rename(Loc(t, t.rows, <<game_id, player_id>> \o <<team_id>> \o p_cols(t)),
           p_cols_new(t))

create_pitching(t) ==
    Rename(Loc(t, NonzeroRows(t, p_cols(t)),
               <<game_id, player_id>> \o <<team_id>> \o p_cols(t)),
           p_cols_new(t))

-----------------------------------------------------------------------------
(* create_fielding *)

f_cols(t) == SelectSeq(t.columns, LAMBDA c : StartsWith(c, <<"f", "_">>))

\* r'f_(\w{1,2})_(\w*)' tried at offset i of col: the length of group 1
\* (two characters before one, as the greedy {1,2} does), or 0 for no match
FieldingMatchAt(col, i) ==
    IF ~(i + 1 <= Len(col) /\ col[i] = "f" /\ col[i + 1] = "_") THEN 0
    ELSE IF i + 4 <= Len(col) /\ IsWordChar(col[i + 2]) /\ IsWordChar(col[i + 3])
            /\ col[i + 4] = "_" THEN 2
    ELSE IF i + 3 <= Len(col) /\ IsWordChar(col[i + 2]) /\ col[i + 3] = "_" THEN 1
    ELSE 0

\* re.search: the leftmost offset with a match (every f_ column of the
\* input has one)
FieldingMatchStart(col) ==
    CHOOSE i \in 1..Len(col) :
        /\ FieldingMatchAt(col, i) > 0
        /\ \A j \in 1..(i - 1) : FieldingMatchAt(col, j) = 0

\* match.group(1)
FieldingPos(col) ==
    LET i == FieldingMatchStart(col)
    IN SubSeq(col, i + 2, i + 1 + FieldingMatchAt(col, i))

\* the longest run of word characters from offset i on
RECURSIVE WordRun(_, _)
WordRun(col, i) ==
    IF i <= Len(col) /\ IsWordChar(col[i]) THEN <<col[i]>> \o WordRun(col, i + 1)
    ELSE <<>>

\* match.group(2), after stat.replace('out', 'inn_outs')
FieldingStat(col) ==
    LET i == FieldingMatchStart(col)
    IN Replace(WordRun(col, i + 3 + FieldingMatchAt(col, i)),
               <<"o", "u", "t">>, <<"i", "n", "n", "_", "o", "u", "t", "s">>)

\* the position of every f_ column
ColumnPositions(fs) == [i \in 1..Len(fs) |-> FieldingPos(fs[i])]

\* orig_cols.keys(): the positions in the order their first column appears
Positions(ps) ==
    LET firsts == SelectSeq([i \in 1..Len(ps) |-> <<i, ps[i]>>],
                      LAMBDA p : \A j \in 1..(p[1] - 1) : ps[j] # p[2])
    IN [i \in 1..Len(firsts) |-> firsts[i][2]]

\* orig_cols[position], from the f_ columns fs and their positions ps
orig_cols(fs, ps, position) ==
    LET at == SelectSeq([i \in 1..Len(fs) |-> i], LAMBDA i : ps[i] = position)
    IN [i \in 1..Len(at) |-> fs[at[i]]]

\* new_cols[position], from orig_cols[position]
new_cols(cols) == [i \in 1..Len(cols) |-> FieldingStat(cols[i])]

\* the df of one position: the rows whose columns of this position do not
\* sum to 0 (~f_filt)
PositionFrame(t, cols, position) ==
    LET src == Loc(t, NonzeroRows(t, cols), <<game_id, player_id>> \o <<team_id>> \o cols)
        df == [src EXCEPT !.columns =
                  <<game_id, player_id>> \o <<team_id>> \o new_cols(cols)]
        withPos == InsertColumn(df, 2, pos, Constant(df, Upper(position)))
    IN IF position # <<"c">>
       THEN AddColumn(AddColumn(withPos, pb, Constant(df, 0)), xi, Constant(df, 0))
       ELSE withPos

create_fielding(t) ==
    LET fs == f_cols(t)
        ps == ColumnPositions(fs)
        keys == Positions(ps)
    IN Concat([i \in 1..Len(keys) |->
                  PositionFrame(t, orig_cols(fs, ps, keys[i]), keys[i])])

-----
(* parse_datetime *)

Digits == <<"0", "1", "2", "3", "4", "5", "6", "7", "8", "9">>

IsDigit(c) == \E d \in 1..10 : Digits[d] = c

DigitValue(c) == (CHOOSE d \in 1..10 : Digits[d] = c) - 1

\* str(n) for n >= 0
RECURSIVE Str(_)
Str(n) == IF n < 10 THEN <<Digits[n + 1]>> ELSE Str(n \div 10) \o <<Digits[(n % 10) + 1]>>

\* f'{n:02d}' for n >= 0
Format02d(n) == IF n < 10 THEN <<"0">> \o Str(n) ELSE Str(n)

\* int(s) for a sequence of digits
RECURSIVE ToInt(_)
ToInt(s) == IF s = <<>> THEN 0
            ELSE 10 * ToInt(SubSeq(s, 1, Len(s) - 1)) + DigitValue(s[Len(s)])

ParseError == [error |-> "ValueError"]

\* pd.to_datetime(s, format = '%Y%m%d %H:%M') on a text whose date part is
\* eight digits: %H takes two digits up to 23 and %M two digits up to 59, and
\* the whole text must be consumed; anything else raises ValueError
to_datetime(s) ==
    IF /\ Len(s) = 14
       /\ \A i \in (1..8) \cup {10, 11, 13, 14} : IsDigit(s[i])
       /\ s[9] = " "
       /\ s[12] = ":"
       /\ ToInt(SubSeq(s, 5, 6)) \in 1..12
       /\ ToInt(SubSeq(s, 7, 8)) \in 1..31
       /\ ToInt(SubSeq(s, 10, 11)) \in 0..23
       /\ ToInt(SubSeq(s, 13, 14)) \in 0..59
    THEN [year |-> ToInt(SubSeq(s, 1, 4)), month |-> ToInt(SubSeq(s, 5, 6)),
          day |-> ToInt(SubSeq(s, 7, 8)), hour |-> ToInt(SubSeq(s, 10, 11)),
          minute |-> ToInt(SubSeq(s, 13, 14))]
    ELSE ParseError

\* AdjustedTime with the day/night flag ignored between 900 and 1200
AdjustedTime_ignores_flag(time, day_night) ==
    IF time > 0 /\ time < 900 THEN time + 1200 ELSE time

\* the time after the am/pm adjustment
AdjustedTime(time, day_night) ==
    IF time > 0 /\ time < 900 THEN time + 1200
    ELSE IF (900 <= time /\ time < 1200) /\ day_night = "N" THEN time + 1200
    ELSE time

\* time_str and datetime_str
DatetimeStr(date, time) ==
    Str(date) \o <<" ">> \o (Format02d(time \div 100) \o <<":">> \o Format02d(time % 100))

parse_datetime(date, time, day_night) ==
    to_datetime(DatetimeStr(date, AdjustedTime(time, day_night)))

-----------------------------------------------------------------------------
(* wrangle_game *)

home_cols(t) == SelectSeq(t.columns, LAMBDA c : StartsWith(c, <<"h", "o", "m", "e">>))

away_cols(t) == SelectSeq(t.columns, LAMBDA c : StartsWith(c, <<"a", "w", "a", "y">>))

game_cols(t) ==
    SelectSeq(t.columns, LAMBDA c : ~StartsWith(c, <<"h", "o", "m", "e">>)
                                    /\ ~StartsWith(c, <<"a", "w", "a", "y">>))

\* one side's rows: at_home added right after game_id, the prefix stripped
SideTeamGame(t, cols, prefix, home) ==
    LET side == Loc(t, t.rows, <<game_id>> \o cols)
        flagged == move_column_after(AddColumn(side, at_home, Constant(side, home)),
                                     game_id, at_home)
    IN Rename(flagged,
              [c \in ToSet(flagged.columns) |->
                  IF StartsWith(c, prefix) THEN DropChars(c, 5) ELSE c])

\* names: the renaming of the team_game columns
TeamGameNames(t) ==
    LET ct == <<"_", "c", "t">>
        n0 == [c \in {c \in ToSet(t.columns) : EndsWith(c, ct)} |-> Replace(c, ct, <<>>)]
        n1 == DictSet(n0, <<"2", "b", "_", "c", "t">>, double)
        n2 == DictSet(n1, <<"3", "b", "_", "c", "t">>, triple)
        n3 == DictPop(n2, <<"p", "i", "t", "c", "h", "e", "r", "_", "c", "t">>)
        n4 == DictSet(n3, <<"b", "i", "_", "c", "t">>, <<"r", "b", "i">>)
        n5 == DictSet(n4, <<"g", "d", "p", "_", "c", "t">>, gidp)
        n6 == DictSet(n5, <<"h", "i", "t", "s", "_", "c", "t">>, <<"h">>)
        n7 == DictSet(n6, <<"h", "p", "_", "c", "t">>, hbp)
        n8 == DictSet(n7, <<"e", "r", "r", "_", "c", "t">>, <<"e">>)
    IN DictSet(n8, <<"s", "c", "o", "r", "e", "_", "c", "t">>, <<"r">>)

\* wrangle_team_game with each side's opponent taken from its own team_id
wrangle_team_game_own_team(t) ==
    LET home0 == SideTeamGame(t, home_cols(t), <<"h", "o", "m", "e", "_">>, TRUE)
        away0 == SideTeamGame(t, away_cols(t), <<"a", "w", "a", "y", "_">>, FALSE)
        home_team_game == InsertColumn(home0, 4, opponent_team_id, Column(home0, team_id))
        away_team_game == InsertColumn(away0, 4, opponent_team_id, Column(away0, team_id))
        both == Concat(<<home_team_game, away_team_game>>)
    IN Rename(both, TeamGameNames(both))

\* team_game as written: the home rows, then the away rows
wrangle_team_game(t) ==
    LET home0 == SideTeamGame(t, home_cols(t), <<"h", "o", "m", "e", "_">>, TRUE)
        away0 == SideTeamGame(t, away_cols(t), <<"a", "w", "a", "y", "_">>, FALSE)
        home_team_game == InsertColumn(home0, 4, opponent_team_id, Column(away0, team_id))
        away_team_game == InsertColumn(away0, 4, opponent_team_id,
                                       Column(home_team_game, team_id))
        both == Concat(<<home_team_game, away_team_game>>)
    IN Rename(both, TeamGameNames(both))

\* game_tidy['game_start_dt']: parse_datetime applied to every row
GameStartDts(t) ==
    [i \in 1..Len(t.rows) |->
        parse_datetime(Get(t, t.rows[i], game_dt), Get(t, t.rows[i], start_game_tm),
                       Get(t, t.rows[i], daynight_park_cd))]

\* the apply raises when parse_datetime raises on some row
ParseFails(t) == \E i \in 1..Len(t.rows) : GameStartDts(t)[i] = ParseError

\* wrangle_game_tidy turning the day/night flag, not dh_fl, into the boolean
wrangle_game_tidy_day_night(t) ==
    LET tidy0 == Loc(t, t.rows, game_cols(t))
        tidy1 == move_column_after(AddColumn(tidy0, game_start_dt, GameStartDts(tidy0)),
                                   game_id, game_start_dt)
        tidy2 == DropColumns(tidy1, {start_game_tm, game_dt, game_dy})
        tidy3 == AddColumn(tidy2, dh_flag,
                           [i \in 1..Len(tidy2.rows) |->
                               Get(tidy2, tidy2.rows[i], daynight_park_cd) = "N"])
    IN DropColumns(tidy3, {dh_fl})

\* game_tidy as written
wrangle_game_tidy(t) ==
    LET tidy0 == Loc(t, t.rows, game_cols(t))
        tidy1 == move_column_after(AddColumn(tidy0, game_start_dt, GameStartDts(tidy0)),
                                   game_id, game_start_dt)
        tidy2 == DropColumns(tidy1, {start_game_tm, game_dt, game_dy})
        tidy3 == AddColumn(tidy2, dh_flag,
                           [i \in 1..Len(tidy2.rows) |->
                               Get(tidy2, tidy2.rows[i], dh_fl) = "T"])
    IN DropColumns(tidy3, {dh_fl})

-----------------------------------------------------------------------------
(* create_retro_to_lahman_id_mappings *)

\* lahman/wrangled/people.csv
LahmanPeople ==
    [columns |-> <<player_id, retro_id>>,
     rows |-> << <<"lahman1", "p1">>, <<"lahman2", "p2">>, <<"lahman9", "p9">> >>]

\* lahman/wrangled/teams.csv
LahmanTeams ==
    [columns |-> <<year_id, team_id, team_id_retro>>,
     rows |-> << <<2022, "LT1", "t1">>, <<2023, "LT1", "t1">>,
                 <<2023, "LT2", "t2">>, <<2023, "LT9", "t9">> >>]

\* df[col].unique(), as a set
Unique(t, col) == {Get(t, t.rows[i], col) : i \in 1..Len(t.rows)}

\* pp: the people whose retro_id is a player_id of player_game
player_id_pairs(t, people) ==
    Loc(people,
        SelectSeq(people.rows, LAMBDA r : Get(people, r, retro_id) \in Unique(t, player_id)),
        <<player_id, retro_id>>)

\* tt: the teams whose team_id_retro is a team_id of player_game
team_id_triples(t, teams) ==
    Loc(teams,
        SelectSeq(teams.rows, LAMBDA r : Get(teams, r, team_id_retro) \in Unique(t, team_id)),
        <<year_id, team_id, team_id_retro>>)

-----------------------------------------------------------------------------
(* The input files *)

\* the game ids and the dates of the games
GameIds == <<"g1", "g2", "g3", "g4">>

GameDate(g) ==
    CASE g = "g1" -> 20230701 [] g = "g2" -> 20231231 [] g = "g3" -> 20240229
      [] OTHER -> 20240930

TeamOf(p) == IF p = "p1" THEN "t1" ELSE "t2"

\* the keys of the input rows: two players of one game, one of them in a second game
PlayerKeys == {<<"g1", "p1">>, <<"g1", "p2">>, <<"g2", "p1">>}

\* the statistic columns of the input
StatColumnSet == {PlayerGameColumns[j] : j \in 6..Len(PlayerGameColumns)}

\* a player-per-game row with the values of stats (a function on some
\* statistic columns) and 0 in the other statistic columns; appear_dt
\* repeats game_dt
PlayerRow(g, p, stats) ==
    [j \in 1..Len(PlayerGameColumns) |->
        LET c == PlayerGameColumns[j]
        IN CASE c = game_id -> g
             [] c = game_dt -> GameDate(g)
             [] c = appear_dt -> GameDate(g)
             [] c = team_id -> TeamOf(p)
             [] c = player_id -> p
             [] OTHER -> IF c \in DOMAIN stats THEN stats[c] ELSE 0]

\* the columns that vary in the tables of several rows: the flag that is not
\* summed, a pitching count, and two fielding positions
SomeColumns == {b_g, p_gdp, f_c_pb, f_ss_g}

\* rows with at most one nonzero statistic, among SomeColumns
NarrowRows ==
    {PlayerRow(k[1], k[2], stats) :
        k \in PlayerKeys,
        stats \in UNION {[cs -> 1..MaxStat] : cs \in {{}} \cup {{c} : c \in SomeColumns}}}

\* rows of one key with at most two nonzero statistics, among all the columns
WideRows ==
    {PlayerRow("g1", "p1", stats) :
        stats \in UNION {[cs -> 1..MaxStat] :
                            cs \in {{c, d} : c, d \in StatColumnSet}}}

\* the lists of 1 to n elements of S
SeqsUpTo(S, n) == UNION {[1..m -> S] : m \in 1..n}

\* the player-per-game tables: 1 to MaxRows narrow rows (with or without
\* duplicate keys), or one wide row
PlayerGameInputs ==
    {[columns |-> PlayerGameColumns, rows |-> rs] :
        rs \in SeqsUpTo(NarrowRows, MaxRows) \cup {<<r>> : r \in WideRows}}

DefaultPlayerGame ==
    [columns |-> PlayerGameColumns,
     rows |-> <<PlayerRow("g1", "p1", [c \in {p_g} |-> 1]),
                PlayerRow("g1", "p2", [c \in {f_ss_g} |-> 1])>>]

\* a game row
GameRow(g, time, day_night, dh, home, away) ==
    [j \in 1..Len(GameColumns) |->
        LET c == GameColumns[j]
        IN CASE c = game_id -> g
             [] c = game_dt -> GameDate(g)
             [] c = game_dy -> "Sat"
             [] c = start_game_tm -> time
             [] c = dh_fl -> dh
             [] c = daynight_park_cd -> day_night
             [] c = away_team_id -> away
             [] c = home_team_id -> home
             [] c = away_score_ct -> 1
             [] c = home_score_ct -> 3
             [] c = away_pitcher_ct -> 2
             [] OTHER -> 4]

\* the start times of the tables of several games: unknown, ambiguous, not a time
SomeTimes == {0, 1030, 1275}

\* game tables of one row, with every start time up to MaxTime
OneGameInputs ==
    {[columns |-> GameColumns, rows |-> <<GameRow("g1", time, dn, "F", "t1", "t2")>>] :
        time \in 0..MaxTime, dn \in {"D", "N"}}

\* the teams of game i: home, away
Teams(i) == IF i % 2 = 1 THEN <<"t1", "t2">> ELSE <<"t3", "t1">>

ManyGameRows(i) ==
    {GameRow(GameIds[i], time, dn, dh, Teams(i)[1], Teams(i)[2]) :
        time \in SomeTimes, dn \in {"D", "N"}, dh \in {"T", "F"}}

\* game tables of 1 to MaxGames rows; row i is game GameIds[i] (the game
\* table has one row per game_id)
ManyGameInputs ==
    {[columns |-> GameColumns, rows |-> rs] :
        rs \in UNION {{f \in [1..m -> UNION {ManyGameRows(i) : i \in 1..m}] :
                          \A i \in 1..m : f[i] \in ManyGameRows(i)} : m \in 1..MaxGames}}

DefaultGame ==
    [columns |-> GameColumns, rows |-> <<GameRow("g1", 1030, "N", "T", "t1", "t2")>>]

\* the pairs of input files: one of the two varies while the other is the default
Inputs ==
    ((PlayerGameInputs \cup {Missing}) \X {DefaultGame})
        \cup ({DefaultPlayerGame} \X (OneGameInputs \cup ManyGameInputs \cup {Missing}))

-----------------------------------------------------------------------------
(* main *)

Init ==
    /\ pc = "get_player_game"
    /\ \E in \in Inputs : player_game_file = in[1] /\ game_file = in[2]
    /\ player_game = NoTable
    /\ game = NoTable
    /\ written = {}
    /\ batting = NoTable
    /\ pitching = NoTable
    /\ fielding = NoTable
    /\ player_id_mapping = NoTable
    /\ team_id_mapping = NoTable
    /\ team_game = NoTable
    /\ game_out = NoTable

\* player_game = get_player_game(...): a missing file raises
GetPlayerGame ==
    /\ pc = "get_player_game"
    /\ \/ /\ player_game_file # Missing
          /\ player_game' = player_game_file
          /\ pc' = "get_game"
       \/ /\ player_game_file = Missing
          /\ pc' = "aborted"
          /\ UNCHANGED player_game
    /\ UNCHANGED <<player_game_file, game_file, game, written, batting, pitching,
                   fielding, player_id_mapping, team_id_mapping, team_game, game_out>>

\* game = get_game(...): a missing file raises
GetGame ==
    /\ pc = "get_game"
    /\ \/ /\ game_file # Missing
          /\ game' = game_file
          /\ pc' = "clean_player_game"
       \/ /\ game_file = Missing
          /\ pc' = "aborted"
          /\ UNCHANGED game
    /\ UNCHANGED <<player_game_file, game_file, player_game, written, batting, pitching,
                   fielding, player_id_mapping, team_id_mapping, team_game, game_out>>

\* player_game = clean_player_game(player_game)
CleanPlayerGame ==
    /\ pc = "clean_player_game"
    /\ player_game' = clean_player_game(player_game)
    /\ pc' = "create_batting"
    /\ UNCHANGED <<player_game_file, game_file, game, written, batting, pitching,
                   fielding, player_id_mapping, team_id_mapping, team_game, game_out>>

CreateBatting ==
    /\ pc = "create_batting"
    /\ batting' = create_batting(player_game)
    /\ written' = written \cup {"batting"}
    /\ pc' = "create_pitching"
    /\ UNCHANGED <<player_game_file, game_file, player_game, game, pitching,
                   fielding, player_id_mapping, team_id_mapping, team_game, game_out>>

CreatePitching ==
    /\ pc = "create_pitching"
    /\ pitching' = create_pitching(player_game)
    /\ written' = written \cup {"pitching"}
    /\ pc' = "create_fielding"
    /\ UNCHANGED <<player_game_file, game_file, player_game, game, batting,
                   fielding, player_id_mapping, team_id_mapping, team_game, game_out>>

CreateFielding ==
    /\ pc = "create_fielding"
    /\ fielding' = create_fielding(player_game)
    /\ written' = written \cup {"fielding"}
    /\ pc' = "create_id_mappings"
    /\ UNCHANGED <<player_game_file, game_file, player_game, game, batting,
                   pitching, player_id_mapping, team_id_mapping, team_game, game_out>>

\* CreateIdMappings with a missing file skipped instead of raising
CreateIdMappings_skips_missing ==
    /\ pc = "create_id_mappings"
    /\ \E people_found, teams_found \in BOOLEAN :
          /\ player_id_mapping' = IF people_found
                                  THEN player_id_pairs(player_game, LahmanPeople)
                                  ELSE player_id_mapping
          /\ team_id_mapping' = IF teams_found
                                THEN team_id_triples(player_game, LahmanTeams)
                                ELSE team_id_mapping
          /\ written' = written \cup (IF people_found THEN {"player_id_mapping"} ELSE {})
                                \cup (IF teams_found THEN {"team_id_mapping"} ELSE {})
          /\ pc' = "wrangle_game"
    /\ UNCHANGED <<player_game_file, game_file, player_game, game, batting,
                   pitching, fielding, team_game, game_out>>

\* create_retro_to_lahman_id_mappings: reading people.csv raises when the file
\* is missing; so does reading teams.csv, after player_id_mapping.csv is written
CreateIdMappings ==
    /\ pc = "create_id_mappings"
    /\ \E people_found, teams_found \in BOOLEAN :
          \/ /\ ~people_found
             /\ pc' = "aborted"
             /\ UNCHANGED <<written, player_id_mapping, team_id_mapping>>
          \/ /\ people_found /\ ~teams_found
             /\ player_id_mapping' = player_id_pairs(player_game, LahmanPeople)
             /\ written' = written \cup {"player_id_mapping"}
             /\ pc' = "aborted"
             /\ UNCHANGED team_id_mapping
          \/ /\ people_found /\ teams_found
             /\ player_id_mapping' = player_id_pairs(player_game, LahmanPeople)
             /\ team_id_mapping' = team_id_triples(player_game, LahmanTeams)
             /\ written' = written \cup {"player_id_mapping", "team_id_mapping"}
             /\ pc' = "wrangle_game"
    /\ UNCHANGED <<player_game_file, game_file, player_game, game, batting,
                   pitching, fielding, team_game, game_out>>

\* wrangle_game: team_game is written, then parse_datetime is applied to the
\* rows (it raises on a time that is no time of day), then game is written
WrangleGame ==
    /\ pc = "wrangle_game"
    /\ team_game' = wrangle_team_game(game)
    /\ \/ /\ ParseFails(game)
          /\ written' = written \cup {"team_game"}
          /\ pc' = "aborted"
          /\ UNCHANGED game_out
       \/ /\ ~ParseFails(game)
          /\ game_out' = wrangle_game_tidy(game)
          /\ written' = written \cup {"team_game", "game"}
          /\ pc' = "done"
    /\ UNCHANGED <<player_game_file, game_file, player_game, game, batting,
                   pitching, fielding, player_id_mapping, team_id_mapping>>

Next ==
    \/ GetPlayerGame
    \/ GetGame
    \/ CleanPlayerGame
    \/ CreateBatting
    \/ CreatePitching
    \/ CreateFielding
    \/ CreateIdMappings
    \/ WrangleGame

Spec == Init /\ [][Next]_vars

-----------------------------------------------------------------------------
(* Properties *)

RowsOf(t) == 1..Len(t.rows)

Value(t, i, col) == Get(t, t.rows[i], col)

\* the (game_id, player_id) of row i
PKey(t, i) == <<Value(t, i, game_id), Value(t, i, player_id)>>

\* clean_player_game has just returned: player_game is the cleaned table
Cleaned == pc = "create_batting"

\* the three splitters have just returned: player_game is the cleaned table
\* they were given, and batting, pitching and fielding are written
Split == pc = "create_id_mappings"

\* the sum of column col over the rows of t with key k
RECURSIVE SumOver(_, _, _, _)
SumOver(t, k, col, n) ==
    IF n = 0 THEN 0
    ELSE SumOver(t, k, col, n - 1) + (IF PKey(t, n) = k THEN Value(t, n, col) ELSE 0)

\* a column with the prefix b_, p_ or f_
HasStatPrefix(col) ==
    \/ StartsWith(col, <<"b", "_">>)
    \/ StartsWith(col, <<"p", "_">>)
    \/ StartsWith(col, <<"f", "_">>)

\* the nine position codes, as the columns and as the pos column spell them
PositionCodes ==
    {<< <<"p">>, <<"P">> >>, << <<"c">>, <<"C">> >>,
     << <<"1", "b">>, <<"1", "B">> >>, << <<"2", "b">>, <<"2", "B">> >>,
     << <<"3", "b">>, <<"3", "B">> >>, << <<"s", "s">>, <<"S", "S">> >>,
     << <<"l", "f">>, <<"L", "F">> >>, << <<"c", "f">>, <<"C", "F">> >>,
     << <<"r", "f">>, <<"R", "F">> >>}

\* row i of the cleaned table has a nonzero f_{code}_ column
PlayedAt(i, code) ==
    \E j \in 1..Len(player_game.columns) :
        /\ StartsWith(player_game.columns[j], <<"f", "_">> \o code[1] \o <<"_">>)
        /\ player_game.rows[i][j] # 0

\* row i of the cleaned table has a nonzero p_ column
Pitched(i) ==
    \E j \in 1..Len(player_game.columns) :
        /\ StartsWith(player_game.columns[j], <<"p", "_">>)
        /\ player_game.rows[i][j] # 0

\* the date and the time of day a timestamp must show for a raw date and an
\* adjusted HHMM time
Timestamp(date, adjusted) ==
    [year |-> date \div 10000, month |-> (date \div 100) % 100, day |-> date % 100,
     hour |-> adjusted \div 100, minute |-> adjusted % 100]

\* a nonzero HMM/HHMM integer: hours up to 23, minutes up to 59
IsTimeOfDay(time) == time > 0 /\ time \div 100 <= 23 /\ time % 100 <= 59

\* the adjusted time, as the rule states it
RuleTime(time, flag) ==
    CASE 0 < time /\ time < 900 -> time + 1200
      [] 900 <= time /\ time < 1200 /\ flag = "N" -> time + 1200
      [] 900 <= time /\ time < 1200 /\ flag # "N" -> time
      [] time >= 1200 -> time

\* get_game has returned
GameLoaded == game_file # Missing /\ pc \notin {"get_player_game", "get_game"}

\* C1: for every game row with a nonzero HMM/HHMM start time, parse_datetime
\* returns the row's date with the time of day the rule gives (+1200 below
\* 900, +1200 from 900 to 1159 for a night game, unchanged otherwise), and
\* that timestamp is what the game table holds
C1_ParseDatetimeRule ==
    GameLoaded =>
        \A i \in RowsOf(game) :
            LET date == Value(game, i, game_dt)
                time == Value(game, i, start_game_tm)
                flag == Value(game, i, daynight_park_cd)
            IN IsTimeOfDay(time) =>
                  /\ parse_datetime(date, time, flag)
                        = Timestamp(date, RuleTime(time, flag))
                  /\ "game" \in written =>
                        Value(game_out, i, game_start_dt)
                            = Timestamp(date, RuleTime(time, flag))

\* a night game at 10:30 written as 22:30
C1_Witness ==
    /\ "game" \in written
    /\ \E i \in RowsOf(game) :
          /\ Value(game, i, start_game_tm) = 1030
          /\ Value(game, i, daynight_park_cd) = "N"
          /\ Value(game_out, i, game_start_dt).hour = 22
          /\ Value(game_out, i, game_start_dt).minute = 30

\* C2: after clean_player_game no two rows share (game_id, player_id), and
\* every key of the input table is the key of exactly one row
C2_KeyUniqueAfterClean ==
    Cleaned =>
        /\ \A i, j \in RowsOf(player_game) :
              PKey(player_game, i) = PKey(player_game, j) => i = j
        /\ \A i \in RowsOf(player_game_file) :
              Cardinality({j \in RowsOf(player_game) :
                  PKey(player_game, j) = PKey(player_game_file, i)}) = 1

\* an input with a duplicate key has been cleaned
C2_Witness ==
    /\ Cleaned
    /\ \E i, j \in RowsOf(player_game_file) :
          i # j /\ PKey(player_game_file, i) = PKey(player_game_file, j)
    /\ Len(player_game.rows) < Len(player_game_file.rows)
    /\ Len(player_game.rows) > 0

\* the keys that more than one input row has
DuplicatedKeys ==
    {PKey(player_game_file, i) : i \in
        {i \in RowsOf(player_game_file) :
            \E j \in RowsOf(player_game_file) :
                j # i /\ PKey(player_game_file, j) = PKey(player_game_file, i)}}

\* C3 as stated: for a duplicated key, every b_, p_ and f_ column of the
\* merged row is the sum of the column over the duplicate rows
C3_EveryStatColumnSummed ==
    Cleaned =>
        \A k \in DuplicatedKeys : \A i \in RowsOf(player_game) :
            PKey(player_game, i) = k =>
                \A j \in 1..Len(player_game.columns) :
                    HasStatPrefix(player_game.columns[j]) =>
                        player_game.rows[i][j]
                            = SumOver(player_game_file, k, player_game.columns[j],
                                      Len(player_game_file.rows))

\* C3, amended: for a duplicated key, every b_, p_ and f_ column other than
\* b_g of the merged row is the sum of the column over the duplicate rows
C3_StatColumnsButGamesSummed ==
    Cleaned =>
        \A k \in DuplicatedKeys : \A i \in RowsOf(player_game) :
            PKey(player_game, i) = k =>
                \A j \in 1..Len(player_game.columns) :
                    (HasStatPrefix(player_game.columns[j]) /\ player_game.columns[j] # b_g) =>
                        player_game.rows[i][j]
                            = SumOver(player_game_file, k, player_game.columns[j],
                                      Len(player_game_file.rows))

\* two rows of one key, both nonzero in one fielding column, merged into its sum
C3_Witness ==
    /\ Cleaned
    /\ \E i, j \in RowsOf(player_game_file) :
          /\ i # j
          /\ PKey(player_game_file, i) = PKey(player_game_file, j)
          /\ Value(player_game_file, i, f_ss_g) > 0
          /\ Value(player_game_file, j, f_ss_g) > 0
          /\ \E m \in RowsOf(player_game) :
                /\ PKey(player_game, m) = PKey(player_game_file, i)
                /\ Value(player_game, m, f_ss_g)
                      >= Value(player_game_file, i, f_ss_g)
                            + Value(player_game_file, j, f_ss_g)

\* the columns of an output table that hold statistics
OutputStats(t) ==
    {j \in 1..Len(t.columns) : t.columns[j] \notin {game_id, player_id, team_id, pos}}

\* the code of the cleaned table's columns for a value of the pos column
CodeOf(upper) == CHOOSE code \in PositionCodes : code[2] = upper

\* C4: every pitching row has a nonzero statistic and comes from a cleaned
\* row with a nonzero p_ column; every fielding row has a nonzero statistic
\* and comes from a cleaned row with a nonzero column of its own position;
\* every cleaned row with a nonzero p_ column is in pitching; batting has as
\* many rows as the cleaned table
C4_NoAllZeroRows ==
    Split =>
        /\ \A i \in RowsOf(pitching) :
              /\ \E j \in OutputStats(pitching) : pitching.rows[i][j] # 0
              /\ \E m \in RowsOf(player_game) :
                    PKey(player_game, m) = PKey(pitching, i) /\ Pitched(m)
        /\ \A i \in RowsOf(fielding) :
              /\ \E j \in OutputStats(fielding) : fielding.rows[i][j] # 0
              /\ \E code \in PositionCodes : code[2] = Value(fielding, i, pos)
              /\ \E m \in RowsOf(player_game) :
                    /\ PKey(player_game, m) = PKey(fielding, i)
                    /\ PlayedAt(m, CodeOf(Value(fielding, i, pos)))
        /\ \A m \in RowsOf(player_game) :
              Pitched(m) =>
                  \E i \in RowsOf(pitching) : PKey(pitching, i) = PKey(player_game, m)
        /\ Len(batting.rows) = Len(player_game.rows)

\* a cleaned table with a row that did not pitch and a row that did not
\* field, beside rows that did: pitching and fielding are shorter than batting
C4_Witness ==
    /\ Split
    /\ Len(pitching.rows) > 0
    /\ Len(fielding.rows) > 0
    /\ \E m \in RowsOf(player_game) : ~Pitched(m)
    /\ \E m \in RowsOf(player_game) : \A code \in PositionCodes : ~PlayedAt(m, code)
    /\ Len(batting.rows) > Len(pitching.rows)
    /\ Len(batting.rows) > Len(fielding.rows)

\* C5: for every key of the cleaned table the fielding rows of that key are
\* as many as the positions with a nonzero f_{pos}_ column, and they carry
\* different upper-cased position codes
C5_OneRowPerPosition ==
    Split =>
        \A m \in RowsOf(player_game) :
            LET mine == {i \in RowsOf(fielding) : PKey(fielding, i) = PKey(player_game, m)}
            IN /\ Cardinality(mine)
                     = Cardinality({code \in PositionCodes : PlayedAt(m, code)})
               /\ \A i \in mine :
                     \E code \in PositionCodes :
                         code[2] = Value(fielding, i, pos) /\ PlayedAt(m, code)
               /\ \A i, j \in mine :
                     Value(fielding, i, pos) = Value(fielding, j, pos) => i = j

\* a player with activity at two positions in one game, and two rows for it
C5_Witness ==
    /\ Split
    /\ \E m \in RowsOf(player_game) :
          /\ Cardinality({code \in PositionCodes : PlayedAt(m, code)}) = 2
          /\ Cardinality({i \in RowsOf(fielding) :
                             PKey(fielding, i) = PKey(player_game, m)}) = 2

\* C6: team_game has twice the rows of the game table: for every game one
\* row at home and one away, each holding the other's team_id as its
\* opponent_team_id
C6_TwoRowsPerGame ==
    "team_game" \in written =>
        /\ Len(team_game.rows) = 2 * Len(game.rows)
        /\ \A g \in RowsOf(game) :
              LET of(home) == {i \in RowsOf(team_game) :
                                  /\ Value(team_game, i, game_id) = Value(game, g, game_id)
                                  /\ Value(team_game, i, at_home) = home}
              IN /\ Cardinality(of(TRUE)) = 1
                 /\ Cardinality(of(FALSE)) = 1
                 /\ \A h \in of(TRUE) : \A a \in of(FALSE) :
                       /\ Value(team_game, h, team_id) = Value(team_game, a, opponent_team_id)
                       /\ Value(team_game, a, team_id) = Value(team_game, h, opponent_team_id)
                       /\ Value(team_game, h, team_id) = Value(game, g, home_team_id)
                       /\ Value(team_game, a, team_id) = Value(game, g, away_team_id)

\* two games written as four rows
C6_Witness ==
    /\ "team_game" \in written
    /\ Len(game.rows) = 2
    /\ Len(team_game.rows) = 4
    /\ Value(team_game, 1, team_id) # Value(team_game, 1, opponent_team_id)

\* the output files, in the order main writes them
OutputOrder == <<"batting", "pitching", "fielding", "player_id_mapping",
                 "team_id_mapping", "team_game", "game">>

FirstOutputs(k) == {OutputOrder[i] : i \in 1..k}

\* C7 as stated: when the run has ended, all seven tables are written or none is
C7_AllOrNothing ==
    pc \in {"done", "aborted"} => written = {} \/ written = FirstOutputs(7)

\* C7, amended: a failure ends the run with the tables of the earlier steps
\* written: at any time the tables written are the first k of the order
\* batting, pitching, fielding, player-id mapping, team-id mapping, team-game,
\* game; all seven when the run succeeds, fewer when it fails
C7_WrittenUpToFailure ==
    /\ \E k \in 0..7 : written = FirstOutputs(k)
    /\ pc = "done" => written = FirstOutputs(7)
    /\ pc = "aborted" => written # FirstOutputs(7)

\* a run that failed in the timestamp computation, after six tables
C7_Witness == pc = "aborted" /\ written = FirstOutputs(6)

\* C8 as stated: a start time of 0 gives no well-formed timestamp
C8_ZeroIsMalformed ==
    GameLoaded =>
        \A i \in RowsOf(game) :
            Value(game, i, start_game_tm) = 0 =>
                parse_datetime(Value(game, i, game_dt), 0,
                               Value(game, i, daynight_park_cd)) = ParseError

\* C9 as stated: neither batting nor pitching has a column named 2b, 3b,
\* gdp or hp
C9_SameOverridesInBoth ==
    ("batting" \in written /\ "pitching" \in written) =>
        \A name \in {<<"2", "b">>, <<"3", "b">>, <<"g", "d", "p">>, <<"h", "p">>} :
            ~Contains(batting.columns, name) /\ ~Contains(pitching.columns, name)

\* C9, amended: both splitters strip the prefix and rename 2b to double and
\* 3b to triple; only pitching also renames gdp to gidp and hp to hbp, so
\* batting keeps the columns gdp and hp
C9_OverridesPerTable ==
    ("batting" \in written /\ "pitching" \in written) =>
        /\ batting.columns = <<game_id, player_id, team_id, <<"g">>, double, triple,
                               <<"g", "d", "p">>, <<"h", "p">> >>
        /\ pitching.columns = <<game_id, player_id, team_id, <<"g">>, double, triple,
                                gidp, hbp>>

\* both tables written, with rows
C9_Witness ==
    /\ "batting" \in written
    /\ "pitching" \in written
    /\ Len(batting.rows) > 0
    /\ Len(pitching.rows) > 0
    /\ Contains(batting.columns, double)
    /\ Contains(pitching.columns, gidp)

\* C10 as stated: the game table has no text day/night column but a boolean
\* that the day/night classification determines, and the raw time, date and
\* day-of-week columns are replaced by the start timestamp
C10_DayNightBecomesBoolean ==
    "game" \in written =>
        /\ ~Contains(game_out.columns, daynight_park_cd)
        /\ \E j \in 1..Len(game_out.columns) :
              \A i \in RowsOf(game_out) :
                  /\ game_out.rows[i][j] \in BOOLEAN
                  /\ game_out.rows[i][j] = (Value(game, i, daynight_park_cd) = "N")
        /\ \A c \in {start_game_tm, game_dt, game_dy} : ~Contains(game_out.columns, c)
        /\ Contains(game_out.columns, game_start_dt)

\* C10, amended: the designated-hitter flag dh_fl is replaced by the boolean
\* dh_flag (true exactly for 'T'); the text day/night column is kept as it
\* is; the raw time, date and day-of-week columns are replaced by the start
\* timestamp
C10_DhFlagBecomesBoolean ==
    "game" \in written =>
        /\ {game_out.columns[j] : j \in 1..Len(game_out.columns)}
              = {game_id, game_start_dt, daynight_park_cd, dh_flag}
        /\ Len(game_out.rows) = Len(game.rows)
        /\ \A i \in RowsOf(game_out) :
              /\ Value(game_out, i, game_id) = Value(game, i, game_id)
              /\ Value(game_out, i, dh_flag) = (Value(game, i, dh_fl) = "T")
              /\ Value(game_out, i, daynight_park_cd) = Value(game, i, daynight_park_cd)
              /\ Value(game_out, i, game_start_dt)
                    = parse_datetime(Value(game, i, game_dt),
                                     Value(game, i, start_game_tm),
                                     Value(game, i, daynight_park_cd))

\* a day game with the designated hitter, and a night game without
C10_Witness ==
    /\ "game" \in written
    /\ \E i, j \in RowsOf(game_out) :
          /\ Value(game_out, i, daynight_park_cd) = "D"
          /\ Value(game_out, i, dh_flag) = TRUE
          /\ Value(game_out, j, daynight_park_cd) = "N"
          /\ Value(game_out, j, dh_flag) = FALSE

=============================================================================
